---- MODULE Spec2Model ----
(***************************************************************************)
(* Exam-generation and grading pipeline of the oral-exam grader:           *)
(* LLM gateway (app/core/llm/client.py), schema validator                  *)
(* (app/core/llm/guardrails.py), prompt templates (app/core/llm/prompts.py)*)
(* question generator (app/core/grading/generator.py) and answer grader    *)
(* (app/core/grading/grader.py).                                           *)
(*                                                                         *)
(* Representation of Python values                                         *)
(*  - a text (str) is a sequence of tokens; the token " " is one           *)
(*    whitespace character, every other token is a maximal run of          *)
(*    non-whitespace characters (a word, with its case and punctuation);   *)
(*  - a decoded JSON value is a tagged record [t |-> "str"|"int"|"dict"|   *)
(*    "list"|"null", v |-> ...];                                           *)
(*  - a float that the code only compares is an exact rational <<n, d>>    *)
(*    with d > 0; grades are the integers the float literals denote;       *)
(*  - an exception is a record [type |-> ..., msg |-> sequence of lexemes].*)
(***************************************************************************)
EXTENDS Integers, Sequences, FiniteSets, TLC

(***************************************************************************)
(* Bounds of the model.                                                    *)
(***************************************************************************)
\* largest num_questions / question_number a caller passes
MaxNum == 4
\* number of public operations started in one behaviour without a credential
MaxCalls == 5
\* number of public operations started in one behaviour with a credential
MaxLLMCalls == 2
\* largest grade the thresholds are applied to
MaxGrade == 105
\* largest number of words of an enumerated text
MaxWords == 2

(***************************************************************************)
(* Program constants.                                                      *)
(***************************************************************************)
\* client.py:65  for _ in range(3)
GatewayAttempts == 3
\* an attempt budget of six
max_attempts_six == 5 + 1

\* generator.py:74 and :337  max_attempts = 5
max_attempts == 5

(***************************************************************************)
(* Texts.                                                                  *)
(***************************************************************************)
WS == " "

Range(s) == {s[i] : i \in 1..Len(s)}

\* a minimum that is its first argument
Min_first(a, b) == a

Min(a, b) == IF a <= b THEN a ELSE b

\* str.lower() on one token: the capitalised tokens of the vocabulary
LowerToken(w) ==
    CASE w = "Explain" -> "explain"
      [] w = "Describe" -> "describe"
      [] w = "Generic" -> "generic"
      [] w = "CS" -> "cs"
      [] w = "What" -> "what"
      [] w = "IS" -> "is"
      [] w = "API" -> "api"
      [] w = "TOGETHER_API_KEY" -> "together_api_key"
      [] w = "LLM" -> "llm"
      [] w = "Cannot" -> "cannot"
      [] w = "Use" -> "use"
      [] OTHER -> w

\* str.lower()
lower(text) == [i \in 1..Len(text) |-> LowerToken(text[i])]

\* str.split(): the words of a text, whitespace runs dropped
RECURSIVE split(_)
split(text) ==
    IF text = <<>> THEN <<>>
    ELSE IF Head(text) = WS THEN split(Tail(text))
    ELSE <<Head(text)>> \o split(Tail(text))

\* " ".join(words)
RECURSIVE join(_)
join(words) ==
    IF words = <<>> THEN <<>>
    ELSE IF Len(words) = 1 THEN words
    ELSE <<Head(words), WS>> \o join(Tail(words))

\* QuestionGenerator._normalize
_normalize(text) == join(split(lower(text)))

\* len(student_answer.strip()): an answer is [lead, core, trail], the numbers
\* of leading whitespace characters, of characters from the first to the last
\* non-whitespace one, and of trailing whitespace characters
len(answer) == answer.lead + answer.core + answer.trail

strip(answer) == [lead |-> 0, core |-> answer.core, trail |-> 0]

(***************************************************************************)
(* Exact rationals <<n, d>>, d > 0, for the floats of the similarity       *)
(* heuristic.                                                              *)
(***************************************************************************)
RLess(a, b) == a[1] * b[2] < b[1] * a[2]

REq(a, b) == a[1] * b[2] = b[1] * a[2]

RMax(a, b) == IF RLess(a, b) THEN b ELSE a

RMin(a, b) == IF RLess(b, a) THEN b ELSE a

\* generator.py:166
common_words ==
    {"what", "how", "why", "when", "where", "does", "is", "are", "the", "a",
     "an", "and", "or", "but", "do", "can", "will"}

key_terms(words) == {w \in words : Len(w) > 3 /\ w \notin common_words}

\* QuestionGenerator._calculate_similarity
_calculate_similarity(text1, text2) ==
    LET words1 == Range(split(text1))
        words2 == Range(split(text2))
        intersection == Cardinality(words1 \cap words2)
        union == Cardinality(words1 \cup words2)
        jaccard == <<intersection, union>>
        min_len == Min(Cardinality(words1), Cardinality(words2))
        overlap_ratio == IF min_len > 0 THEN <<intersection, min_len>> ELSE <<0, 1>>
        key_terms1 == key_terms(words1)
        key_terms2 == key_terms(words2)
        key_intersection == Cardinality(key_terms1 \cap key_terms2)
        key_union == Cardinality(key_terms1 \cup key_terms2)
        key_similarity ==
            IF key_terms1 # {} /\ key_terms2 # {}
            THEN (IF key_union > 0 THEN <<key_intersection, key_union>> ELSE <<0, 1>>)
            ELSE <<0, 1>>
        overlap08 == <<overlap_ratio[1] * 4, overlap_ratio[2] * 5>>
        key09 == <<key_similarity[1] * 9, key_similarity[2] * 10>>
        similarity0 ==
            IF RLess(<<3, 5>>, key_similarity)
            THEN RMax(RMax(jaccard, overlap08), key09)
            ELSE RMax(jaccard, overlap08)
        similarity ==
            IF min_len <= 6 /\ RLess(<<1, 2>>, key_similarity)
            THEN RMax(similarity0, <<3, 4>>)
            ELSE similarity0
    IN  IF words1 = {} \/ words2 = {} THEN <<0, 1>>
        ELSE IF union = 0 THEN <<0, 1>>
        ELSE RMin(similarity, <<1, 1>>)

(***************************************************************************)
(* Exceptions.  A message is a sequence of lexemes; `x in str(e)` is a     *)
(* search for a contiguous run of lexemes.                                 *)
(***************************************************************************)
\* a no-credential error whose message does not name the credential
UnavailableError_reworded ==
    [type |-> "RuntimeError", msg |-> <<"API", "key", "missing">>]

\* client.py:49-52
UnavailableError ==
    [type |-> "RuntimeError",
     msg |-> <<"TOGETHER_API_KEY", "is", "not", "set", ".", "Cannot", "generate",
               "LLM", "response", ".", "Use", "fallback", "functionality",
               "instead", ".">>]

\* client.py:75
RequestFailedError ==
    [type |-> "RuntimeError",
     msg |-> <<"LLM", "request", "failed", "after", "3", "attempts">>]

\* client.py:80-85: json.loads raising on text that is not JSON
JSONDecodeError == [type |-> "JSONDecodeError", msg |-> <<"Expecting", "value">>]

\* str.format raising on a replacement field that has no argument
KeyError(field) == [type |-> "KeyError", msg |-> <<field>>]

\* `pattern in message`
Contains(message, pattern) ==
    \E i \in 0..(Len(message) - Len(pattern)) :
        \A j \in 1..Len(pattern) : message[i + j] = pattern[j]

\* generator.py:123
is_api_key_error_question(e) ==
    \/ Contains(e.msg, <<"TOGETHER_API_KEY">>)
    \/ Contains(lower(e.msg), <<"API", "key">>)

\* generator.py:427
is_api_key_error_exam(e) ==
    \/ Contains(e.msg, <<"TOGETHER_API_KEY">>)
    \/ Contains(lower(e.msg), <<"API", "key">>)
    \/ Contains(lower(e.msg), <<"not", "set">>)

(***************************************************************************)
(* Prompt templates.  A template is the set of its replacement fields.     *)
(***************************************************************************)
TemplateFiles == {"question_gen_v1.txt", "exam_gen_v1.txt", "grade_response_v1.txt"}

\* generator.py:77-82, 274-281 and grader.py:57-63: the keyword arguments the
\* callers pass to format_prompt
QuestionKwargs == {"topic", "difficulty", "question_number"}

ExamKwargs ==
    {"topic", "num_questions", "difficulty_level", "additional_details_section",
     "guidance_section"}

GradeKwargs == {"question_text", "context", "rubric", "student_answer"}

\* finalizer.py:54-58
FinalKwargs == {"question_scores", "feedback_summary"}

\* a template file that is present is written for its caller: its fields are
\* the caller's keyword arguments
FileTemplate(filename) ==
    CASE filename = "question_gen_v1.txt" -> QuestionKwargs
      [] filename = "exam_gen_v1.txt" -> ExamKwargs
      [] filename = "grade_response_v1.txt" -> GradeKwargs
      [] filename = "final_grade_v1.txt" -> FinalKwargs

\* QuestionGenerator._get_default_template: the JSON example is written with
\* single braces, so its first line is read as a replacement field
question_default_template ==
    {"topic", "difficulty", "question_number", "\"question_text\""}

\* QuestionGenerator._get_default_exam_template
exam_default_template ==
    {"num_questions", "topic", "% if additional_details %", "additional_details",
     "% endif %"}

\* AnswerGrader._get_default_template
grade_default_template ==
    {"question_text", "context", "rubric", "student_answer", "\"grade\""}

\* FinalGradeCalculator._get_default_template: the braces of its JSON example
\* are doubled, so its only fields are the two arguments
final_default_template == {"question_scores", "feedback_summary"}

DefaultTemplate(filename) ==
    CASE filename = "question_gen_v1.txt" -> question_default_template
      [] filename = "exam_gen_v1.txt" -> exam_default_template
      [] filename = "grade_response_v1.txt" -> grade_default_template
      [] filename = "final_grade_v1.txt" -> final_default_template

\* prompts.load_prompt with the callers' `except FileNotFoundError` fallback
\* (generator.py:23-29, 255-259, grader.py:19-25)
_load_template(present, filename) ==
    IF filename \in present THEN FileTemplate(filename) ELSE DefaultTemplate(filename)

\* prompts.format_prompt: template.format(**kwargs); the set of fields that
\* have no argument (empty when formatting succeeds)
format_prompt_missing(template, kwargs) == template \ kwargs

format_prompt_ok(template, kwargs) == format_prompt_missing(template, kwargs) = {}

format_prompt_error(template, kwargs) ==
    KeyError(CHOOSE f \in format_prompt_missing(template, kwargs) : TRUE)

(***************************************************************************)
(* Decoded JSON values and the response schemas.                           *)
(***************************************************************************)
Str(text) == [t |-> "str", v |-> text]

Num(n) == [t |-> "int", v |-> n]

Null == [t |-> "null", v |-> 0]

Dict(fields) == [t |-> "dict", v |-> fields]

List(items) == [t |-> "list", v |-> items]

\* the "no value" of validate_response
None == [t |-> "None"]

\* a str field of a schema: present and a string
StrField(d, name) == name \in DOMAIN d /\ d[name].t = "str"

\* llm_contracts.py:6-10  GeneratedQuestion(**response_dict)
GeneratedQuestion(d) ==
    IF StrField(d, "question_text") /\ StrField(d, "context") /\ StrField(d, "rubric")
    THEN [t |-> "GeneratedQuestion", question_text |-> d.question_text.v,
          context |-> d.context.v, rubric |-> d.rubric.v]
    ELSE None

\* GeneratedQuestionWithNumber: GeneratedQuestion plus a positive integer
\* question_number
GeneratedQuestionWithNumber(d) ==
    IF /\ d.t = "dict"
       /\ GeneratedQuestion(d.v) # None
       /\ "question_number" \in DOMAIN d.v
       /\ d.v.question_number.t = "int"
       /\ d.v.question_number.v > 0
    THEN [question_number |-> d.v.question_number.v,
          question_text |-> d.v.question_text.v,
          context |-> d.v.context.v, rubric |-> d.v.rubric.v]
    ELSE None

\* GeneratedExam: {questions: sequence of GeneratedQuestionWithNumber}
GeneratedExam(d) ==
    IF /\ "questions" \in DOMAIN d
       /\ d.questions.t = "list"
       /\ \A i \in 1..Len(d.questions.v) :
              GeneratedQuestionWithNumber(d.questions.v[i]) # None
    THEN [t |-> "GeneratedExam",
          questions |-> [i \in 1..Len(d.questions.v) |->
                            GeneratedQuestionWithNumber(d.questions.v[i])]]
    ELSE None

\* a schema whose grade may be any number
GradingResult_unbounded(d) ==
    IF /\ "grade" \in DOMAIN d
       /\ d.grade.t = "int"
       /\ StrField(d, "feedback")
    THEN [t |-> "GradingResult", grade |-> d.grade.v, feedback |-> d.feedback.v,
          strengths |-> IF "strengths" \in DOMAIN d THEN d.strengths.v ELSE <<>>,
          weaknesses |-> IF "weaknesses" \in DOMAIN d THEN d.weaknesses.v ELSE <<>>]
    ELSE None

\* llm_contracts.py:13-18  GradingResult(**response_dict): grade is a number
\* in [0, 100], feedback a string, strengths and weaknesses default to []
GradingResult(d) ==
    IF /\ "grade" \in DOMAIN d
       /\ d.grade.t = "int"
       /\ d.grade.v >= 0
       /\ d.grade.v <= 100
       /\ StrField(d, "feedback")
    THEN [t |-> "GradingResult", grade |-> d.grade.v, feedback |-> d.feedback.v,
          strengths |-> IF "strengths" \in DOMAIN d THEN d.strengths.v ELSE <<>>,
          weaknesses |-> IF "weaknesses" \in DOMAIN d THEN d.weaknesses.v ELSE <<>>]
    ELSE None

\* a List[...] field: a list whose items all have the type `item`
ListField(d, name, item) ==
    /\ name \in DOMAIN d
    /\ d[name].t = "list"
    /\ \A i \in 1..Len(d[name].v) : d[name].v[i].t = item

\* a schema whose final_grade may be any number
FinalGrade_unbounded(d) ==
    IF /\ "final_grade" \in DOMAIN d
       /\ d.final_grade.t = "int"
       /\ StrField(d, "explanation")
       /\ ListField(d, "question_scores", "int")
    THEN [t |-> "FinalGrade", final_grade |-> <<d.final_grade.v, 1>>,
          explanation |-> d.explanation.v,
          question_scores |-> [i \in 1..Len(d.question_scores.v) |->
                                  d.question_scores.v[i].v]]
    ELSE None

\* llm_contracts.py:21-25  FinalGrade(**response_dict): final_grade is a
\* number in [0, 100], explanation a string, question_scores a list of
\* numbers; final_grade is kept as the rational <<n, d>>
FinalGrade(d) ==
    IF /\ "final_grade" \in DOMAIN d
       /\ d.final_grade.t = "int"
       /\ d.final_grade.v >= 0
       /\ d.final_grade.v <= 100
       /\ StrField(d, "explanation")
       /\ ListField(d, "question_scores", "int")
    THEN [t |-> "FinalGrade", final_grade |-> <<d.final_grade.v, 1>>,
          explanation |-> d.explanation.v,
          question_scores |-> [i \in 1..Len(d.question_scores.v) |->
                                  d.question_scores.v[i].v]]
    ELSE None

\* guardrails.validate_response: schema(**response_dict), None on
\* ValidationError and on any other exception (a response that is no mapping)
validate_response(response_dict, schema) ==
    IF response_dict.t # "dict" THEN None
    ELSE CASE schema = "GeneratedQuestion" -> GeneratedQuestion(response_dict.v)
           [] schema = "GeneratedExam" -> GeneratedExam(response_dict.v)
           [] schema = "GradingResult" -> GradingResult(response_dict.v)
           [] schema = "FinalGrade" -> FinalGrade(response_dict.v)

(***************************************************************************)
(* The fallback bank (generator.py:193-209), each literal shortened to its *)
(* leading words.                                                          *)
(***************************************************************************)
fallback_questions ==
    <<[question_text |-> <<"Explain", WS, "the", WS, "fundamental", WS, "principles",
                           WS, "of", WS, "data", WS, "structures.">>,
       context |-> <<"Data", WS, "structures", WS, "are", WS, "fundamental">>,
       rubric |-> <<"Grading", WS, "criteria:", WS, "arrays", WS, "25">>],
      [question_text |-> <<"Describe", WS, "the", WS, "concept", WS, "of", WS,
                           "algorithm", WS, "time", WS, "complexity">>,
       context |-> <<"Algorithm", WS, "complexity", WS, "analysis">>,
       rubric |-> <<"Grading", WS, "criteria:", WS, "Big", WS, "O", WS, "30">>],
      [question_text |-> <<"Explain", WS, "the", WS, "concept", WS, "of", WS,
                           "recursion", WS, "in", WS, "programming.">>,
       context |-> <<"Recursion", WS, "is", WS, "a", WS, "technique">>,
       rubric |-> <<"Grading", WS, "criteria:", WS, "Explanation", WS, "25">>]>>

\* generator.py:222-226
generic_fallback(question_number) ==
    [question_text |-> <<"Generic", WS, "CS", WS, "question", WS,
                         "#" \o ToString(question_number) \o ".">>,
     context |-> <<"This", WS, "is", WS, "a", WS, "fallback", WS, "question.">>,
     rubric |-> <<"Grading", WS, "criteria:", WS, "complete", WS, "answer", WS, "100">>]

\* a bank that never counts as used up
UnusedFallbacks_all(seen) == 1..Len(fallback_questions)

\* generator.py:212-214: the bank entries whose normalized text is unused
UnusedFallbacks(seen) ==
    {i \in 1..Len(fallback_questions) :
        _normalize(fallback_questions[i].question_text) \notin seen}

\* QuestionGenerator._get_fallback_question
_get_fallback_question(question_number, seen) ==
    LET unused == UnusedFallbacks(seen)
    IN  IF unused # {}
        THEN fallback_questions[CHOOSE i \in unused : \A j \in unused : i <= j]
        ELSE generic_fallback(question_number)

\* a fallback that is returned without being registered
RegisterFallback_skipped(seen, fallback) == seen

\* generator.py:69-72, 125-128, 135-138: generate_question registers the
\* fallback it returns
RegisterFallback(seen, fallback) == seen \cup {_normalize(fallback.question_text)}

\* generator.py:243-252 (and 430-439, 451-460, 472-481, 497-506, 513-522):
\* the fallback exam; generated_questions is not written here
RECURSIVE FallbackExamQuestions(_, _, _)
FallbackExamQuestions(i, num_questions, seen) ==
    IF i > num_questions THEN <<>>
    ELSE LET fallback_q == _get_fallback_question(i, seen)
         IN  <<[question_number |-> i,
                question_text |-> fallback_q.question_text,
                context |-> fallback_q.context,
                rubric |-> fallback_q.rubric]>>
             \o FallbackExamQuestions(i + 1, num_questions, seen)

FallbackExam(num_questions, seen) ==
    [t |-> "GeneratedExam", questions |-> FallbackExamQuestions(1, num_questions, seen)]

(***************************************************************************)
(* Inputs: what callers pass and what the provider answers.                *)
(***************************************************************************)
Topic(i) == <<"Explain", WS, "topic" \o ToString(i)>>

\* seventeen words shared by the long question texts
SharedWords == [i \in 1..17 |-> "t" \o ToString(i)]

\* QLongA and QLongB share 17 of their 20 words, QLongA and QLongC 18 of 19
QLongA == join(SharedWords \o <<"arrays">>)

QLongB == join(SharedWords \o <<"graphs", "heaps">>)

QLongC == join(SharedWords \o <<"arrays", "lists">>)

\* a question of 20 words and a question of 3 words that share two of their
\* key terms
QLongD == join(SharedWords \o <<"arrays", "lists", "heaps">>)

QShortKeys == <<"arrays", WS, "lists", WS, "compared">>

\* the same question up to case and whitespace
QShort == <<"What", WS, "is", WS, "recursion">>

QShortSpaced == <<WS, "what", WS, WS, "IS", WS, "recursion", WS>>

SomeContext == <<"Some", WS, "context">>

SomeRubric == <<"Grading:", WS, "100", WS, "points">>

\* the body of a provider reply: JSON text with its decoded value, or text
\* that is no JSON
Json(value) == [json |-> TRUE, value |-> value]

NotJson == [json |-> FALSE, value |-> Null]

QuestionDict(text) ==
    Dict([question_text |-> Str(text), context |-> Str(SomeContext),
          rubric |-> Str(SomeRubric)])

QuestionTexts ==
    {Topic(1), QShort, QShortSpaced, fallback_questions[1].question_text}

QuestionReplies ==
    {Json(QuestionDict(x)) : x \in QuestionTexts}
    \cup {Json(Dict([context |-> Str(SomeContext), rubric |-> Str(SomeRubric)])),
          NotJson}

\* one question of an exam response
ExamItem(k, text, rubric) ==
    Dict([question_number |-> Num(k), question_text |-> Str(text),
          context |-> Str(SomeContext), rubric |-> rubric])

ExamDict(numbers, texts) ==
    Dict([questions |->
            List([i \in 1..Len(numbers) |-> ExamItem(numbers[i], texts[i], Str(SomeRubric))])])

Topics(n) == [i \in 1..n |-> Topic(i)]

\* Topics(n) with its first two texts replaced
WithPair(n, a, b) ==
    [i \in 1..n |-> IF i = 1 THEN a ELSE IF i = 2 THEN b ELSE Topic(i)]

UpTo(n) == [i \in 1..n |-> i]

RubricDict == [t |-> "dict", v |-> <<[key |-> "Understanding", value |-> Num(25)],
                                      [key |-> "Application", value |-> Num(75)]>>]

RubricDictBad == [t |-> "dict", v |-> <<[key |-> "Understanding", value |-> Str(<<"high">>)]>>]

\* the responses tried for an exam of n questions
ExamValues(n) ==
    {ExamDict(UpTo(n), Topics(n)),
     ExamDict([i \in 1..n |-> n + 1 - i], Topics(n)),
     ExamDict(UpTo(n + 1), Topics(n + 1)),
     ExamDict([i \in 1..n |-> i + 1], Topics(n)),
     ExamDict([i \in 1..n |-> i - 1], Topics(n)),
     Dict([exam |-> List(<<>>)])}
    \cup (IF n >= 1
          THEN {ExamDict(UpTo(n - 1), Topics(n - 1)),
                Dict([questions |-> List([i \in 1..n |->
                        ExamItem(i, Topic(i), IF i = 1 THEN RubricDict ELSE Str(SomeRubric))])]),
                Dict([questions |-> List([i \in 1..n |->
                        ExamItem(i, Topic(i), IF i = 1 THEN RubricDictBad ELSE Str(SomeRubric))])]),
                Dict([questions |-> List([i \in 1..n |->
                        IF i = 1
                        THEN Dict([question_number |-> Num(1), context |-> Str(SomeContext),
                                   rubric |-> Str(SomeRubric)])
                        ELSE ExamItem(i, Topic(i), Str(SomeRubric))])])}
          ELSE {})
    \cup (IF n >= 2
          THEN {ExamDict([i \in 1..n |-> IF i = n THEN 1 ELSE i], Topics(n)),
                ExamDict(UpTo(n), WithPair(n, QShort, QShortSpaced)),
                ExamDict(UpTo(n), WithPair(n, QLongA, QLongB)),
                ExamDict(UpTo(n), WithPair(n, QLongA, QLongC))}
          ELSE {})

ExamReplies(n) == {Json(v) : v \in ExamValues(n)} \cup {NotJson}

\* student answers: leading whitespace, core, trailing whitespace
StudentAnswers ==
    {[lead |-> l, core |-> c, trail |-> r] :
        l \in {0, 1}, c \in {0, 10, 50, 51, 200, 201, 500, 501, 600}, r \in {0, 590}}

GradeDict(g) ==
    Dict([grade |-> Num(g), feedback |-> Str(<<"Good", WS, "answer">>),
          strengths |-> List(<<"clear">>), weaknesses |-> List(<<"short">>)])

GradeReplies ==
    {Json(GradeDict(g)) : g \in {0, 88, 100, 101, -1}}
    \cup {Json(Dict([grade |-> Num(88)])), NotJson}

\* the question scores a caller passes: grades of graded questions
Scores == {0, 70, 80, 90, 100}

ScoreLists ==
    {<<>>} \cup {<<a>> : a \in Scores} \cup {<<a, b>> : a \in Scores, b \in {70, 100}}
    \cup {<<80, 90, 70>>, <<100, 100, 100>>, <<0, 0, 100>>}

FinalDict(g) ==
    Dict([final_grade |-> Num(g), explanation |-> Str(<<"Solid", WS, "work">>),
          question_scores |-> List(<<Num(85), Num(90)>>)])

FinalReplies ==
    {Json(FinalDict(g)) : g \in {0, 88, 100, 101, -1}}
    \cup {Json(Dict([final_grade |-> Num(88)])), Json(List(<<>>)), NotJson}

(***************************************************************************)
(* State.                                                                  *)
(***************************************************************************)
VARIABLES
    api_key,              \* LLMClient.api_key is set (a credential is configured)
    client_methods,       \* the methods the LLMClient class defines
    templates,            \* the template files present in PROMPTS_DIR
    generated_questions,  \* QuestionGenerator.generated_questions
    question_counter,     \* QuestionGenerator._question_counter
    pc,                   \* the operation the task is suspended in, or "idle"
    frame,                \* the arguments of that operation
    attempt,              \* the loop variable of its attempt loop
    gw_pc,                \* position inside LLMClient.generate_json
    provider_log,         \* outcomes of the provider calls of this generate_json
    provider_exc,         \* the exception the last failed provider call raised
    gw_result,            \* what generate_json returned or raised
    gj_calls,             \* generate_json invocations of the current operation
    provider_called,      \* the current operation has called the provider
    result,               \* what the last finished operation returned or raised
    returned,             \* the questions generate_question returned, in order
    calls,                \* operations started so far
    generators,           \* the QuestionGenerator objects constructed so far
    requests,             \* the request each server task is handling
    exam_rows,            \* the rows of the exams table
    question_rows         \* the rows of the questions table

\* the state of the exam workflow: services, requests and database tables
exam_vars == <<generators, requests, exam_rows, question_rows>>

vars ==
    <<api_key, client_methods, templates, generated_questions, question_counter, pc, frame,
      attempt, gw_pc, provider_log, provider_exc, gw_result, gj_calls, provider_called, result,
      returned, calls, exam_vars>>

\* the tasks that handle requests concurrently
Requests == {1, 2}

\* a task that is handling no request: the handler, its position, the exam
\* and the question it works on, the loop variable of start_exam, the
\* generator of its ExamService, the questions generate_question returned to
\* it, the scores complete_exam collected, and how the last handler ended
NoRequest ==
    [handler |-> "none", pc |-> "done", exam_id |-> 0, question_number |-> 0, i |-> 0,
     _question_generator |-> 0, received |-> {}, scores |-> <<>>,
     outcome |-> "none"]

\* no request is being handled and the database is empty
NoExams ==
    /\ generators = <<>>
    /\ requests = [r \in Requests |-> NoRequest]
    /\ exam_rows = <<>>
    /\ question_rows = {}

NoFrame == [op |-> "none"]

NoResult == [kind |-> "none"]

\* client.py:11-85: the methods of LLMClient
LLMClientMethods == {"__init__", "_get_client", "generate_json"}

\* the class as it is, and the class with the _get_api_key method the
\* generator calls
LLMClientBuilds == {LLMClientMethods, LLMClientMethods \cup {"_get_api_key"}}

Init ==
    /\ api_key \in BOOLEAN
    /\ client_methods \in LLMClientBuilds
    /\ templates \in SUBSET TemplateFiles
    /\ generated_questions = {}
    /\ question_counter = 0
    /\ pc = "idle"
    /\ frame = NoFrame
    /\ attempt = 0
    /\ gw_pc = "idle"
    /\ provider_log = <<>>
    /\ provider_exc = "none"
    /\ gw_result = NoResult
    /\ gj_calls = 0
    /\ provider_called = FALSE
    /\ result = NoResult
    /\ returned = <<>>
    /\ calls = 0
    /\ NoExams

(***************************************************************************)
(* LLM gateway: LLMClient.generate_json.                                   *)
(***************************************************************************)
\* LLMClient._get_api_key, called by the generator's availability check
\* (generator.py:60-65, 234-238): the configured credential
_get_api_key == api_key

\* client.py:80-85  json.loads(result_text)
json_loads(content) ==
    IF content.json THEN [kind |-> "return", value |-> content.value]
    ELSE [kind |-> "raise", exc |-> JSONDecodeError]

\* the replies the provider may give to the operation in progress
Replies ==
    CASE frame.op = "generate_question" -> QuestionReplies
      [] frame.op = "generate_exam" -> ExamReplies(frame.num_questions)
      [] frame.op = "grade_answer" -> GradeReplies
      [] frame.op = "calculate_final_grade" -> FinalReplies
      [] OTHER -> {NotJson}

\* client.py:47-52: generate_json up to its first suspension
generate_json ==
    /\ gw_pc = "entered"
    /\ IF ~api_key
       THEN /\ gw_pc' = "done"
            /\ gw_result' = [kind |-> "raise", exc |-> UnavailableError]
       ELSE /\ gw_pc' = "calling"
            /\ gw_result' = NoResult
    /\ provider_log' = <<>>
    /\ provider_exc' = "none"
    /\ UNCHANGED <<exam_vars, api_key, client_methods, templates, generated_questions, question_counter, pc,
                   frame, attempt, gj_calls, provider_called, result, returned, calls>>

\* what client.chat.completions.create raises: a rejected credential, or a
\* server or network failure
ProviderExceptions == {"AuthenticationError", "ServiceUnavailableError"}

\* a retry loop that allows one call more
RetryLeft_extra(log) == Len(log) <= GatewayAttempts

\* client.py:65: the retry loop goes on after a failed call
RetryLeft(log) == Len(log) < GatewayAttempts

\* client.py:62-85: one provider call of call_llm_with_retry, and what follows
\* it without a further call
call_llm_with_retry ==
    /\ gw_pc = "calling"
    /\ provider_called' = TRUE
    /\ \/ \* the call raises
          /\ provider_log' = Append(provider_log, "error")
          /\ provider_exc' \in ProviderExceptions
          /\ IF RetryLeft(provider_log')
             THEN /\ gw_pc' = "calling"
                  /\ gw_result' = NoResult
             ELSE /\ gw_pc' = "done"
                  /\ gw_result' = [kind |-> "raise", exc |-> RequestFailedError]
       \/ \* the call returns a reply
          \E content \in Replies :
              /\ provider_log' = Append(provider_log, "ok")
              /\ provider_exc' = provider_exc
              /\ gw_pc' = "done"
              /\ gw_result' = json_loads(content)
    /\ UNCHANGED <<exam_vars, api_key, client_methods, templates, generated_questions, question_counter, pc,
                   frame, attempt, gj_calls, result, returned, calls>>

(***************************************************************************)
(* Question generator: generate_question.                                  *)
(***************************************************************************)
\* QuestionGenerator.__init__
new_generator ==
    /\ pc = "idle"
    /\ generated_questions # {} \/ question_counter # 0
    /\ generated_questions' = {}
    /\ question_counter' = 0
    /\ returned' = <<>>
    /\ UNCHANGED <<exam_vars, api_key, client_methods, templates, pc, frame, attempt, gw_pc, provider_log, provider_exc,
                   gw_result, gj_calls, provider_called, result, calls>>

\* generator.py:60-65, 234-238: bool(self.llm_client._get_api_key()), and
\* False when the call raises, as it does (AttributeError) when LLMClient has
\* no such method
api_key_available ==
    IF "_get_api_key" \in client_methods THEN _get_api_key ELSE FALSE

\* an availability check that never skips the LLM
skip_llm_never == FALSE

\* generator.py:60-67, 234-240: the availability check sends the call to
\* the fallback
skip_llm == ~api_key_available

\* the caller may start another operation
CallAllowed == calls < (IF api_key THEN MaxLLMCalls ELSE MaxCalls)

\* the operation ends: the task is idle again
Finish(r) ==
    /\ result' = r
    /\ pc' = "idle"
    /\ frame' = NoFrame
    /\ attempt' = 0
    /\ gw_pc' = "idle"
    /\ gw_result' = NoResult
    /\ provider_log' = <<>>
    /\ provider_exc' = "none"

\* generator.py:69-72, 125-128, 135-138
ReturnFallbackQuestion(question_number, via, count) ==
    LET fallback == _get_fallback_question(question_number, generated_questions)
    IN  /\ generated_questions' = RegisterFallback(generated_questions, fallback)
        /\ returned' = Append(returned, fallback.question_text)
        /\ gj_calls' = count
        /\ Finish([op |-> "generate_question", kind |-> "return", via |-> via,
                   value |-> [t |-> "GeneratedQuestion",
                              question_text |-> fallback.question_text,
                              context |-> fallback.context,
                              rubric |-> fallback.rubric]])

\* generator.py:75-107: one pass from the top of the attempt loop to the
\* await of generate_json
QuestionAttempt(question_number, n, count) ==
    LET template == _load_template(templates, "question_gen_v1.txt")
    IN  IF format_prompt_ok(template, QuestionKwargs)
        THEN /\ pc' = "generate_question"
             /\ frame' = [op |-> "generate_question", question_number |-> question_number]
             /\ attempt' = n
             /\ gw_pc' = "entered"
             /\ gw_result' = NoResult
             /\ provider_log' = <<>>
             /\ provider_exc' = "none"
             /\ gj_calls' = count + 1
             /\ result' = NoResult
             /\ UNCHANGED <<generated_questions, returned>>
        ELSE /\ Finish([op |-> "generate_question", kind |-> "raise", via |-> "none",
                        exc |-> format_prompt_error(template, QuestionKwargs)])
             /\ gj_calls' = count
             /\ UNCHANGED <<generated_questions, returned>>

\* what a caller passes as question_number: None, or a number
QuestionNumberArgs ==
    {[given |-> FALSE, n |-> 0]} \cup {[given |-> TRUE, n |-> k] : k \in 1..MaxNum}

\* generator.py:52-107: generate_question up to its return through the
\* availability check, or up to its first await
generate_question(arg) ==
    /\ pc = "idle"
    /\ CallAllowed
    /\ calls' = calls + 1
    /\ provider_called' = FALSE
    /\ question_counter' = IF arg.given THEN question_counter ELSE question_counter + 1
    /\ LET question_number == IF arg.given THEN arg.n ELSE question_counter'
       IN  IF skip_llm
           THEN ReturnFallbackQuestion(question_number, "fallback", 0)
           ELSE QuestionAttempt(question_number, 0, 0)
    /\ UNCHANGED <<exam_vars, api_key, client_methods, templates>>

\* generator.py:107-138: generate_question from the end of its await to its
\* return or to the next await
generate_question_resume ==
    /\ pc = "generate_question"
    /\ gw_pc = "done"
    /\ LET question_number == frame.question_number
           question ==
               IF gw_result.kind = "return"
               THEN validate_response(gw_result.value, "GeneratedQuestion")
               ELSE None
           next_attempt ==
               IF attempt + 1 < max_attempts
               THEN QuestionAttempt(question_number, attempt + 1, gj_calls)
               ELSE ReturnFallbackQuestion(question_number, "fallback", gj_calls)
       IN  IF gw_result.kind = "raise"
           THEN IF /\ gw_result.exc.type = "RuntimeError"
                   /\ is_api_key_error_question(gw_result.exc)
                THEN ReturnFallbackQuestion(question_number, "fallback", gj_calls)
                ELSE next_attempt
           ELSE IF question = None
           THEN next_attempt
           ELSE IF _normalize(question.question_text) \in generated_questions
           THEN next_attempt
           ELSE /\ generated_questions' =
                       generated_questions \cup {_normalize(question.question_text)}
                /\ returned' = Append(returned, question.question_text)
                /\ gj_calls' = gj_calls
                /\ Finish([op |-> "generate_question", kind |-> "return",
                           via |-> "llm", value |-> question])
    /\ UNCHANGED <<exam_vars, api_key, client_methods, templates, question_counter, provider_called, calls>>

(***************************************************************************)
(* Question generator: generate_exam.                                      *)
(***************************************************************************)
\* a total that is always 0
SumValues_none(pairs) == 0

RECURSIVE SumValues(_)
\* sum(rubric_dict.values())
SumValues(pairs) ==
    IF pairs = <<>> THEN 0 ELSE Head(pairs).value.v + SumValues(Tail(pairs))

\* generator.py:355-358: the words of the string a rubric dictionary becomes
RubricParts(pairs) ==
    IF pairs = <<>> THEN <<".">>
    ELSE LET part(i) ==
                 <<pairs[i].key \o ":", ToString(pairs[i].value.v),
                   IF i = Len(pairs) THEN "points." ELSE "points,">>
             RECURSIVE parts(_)
             parts(i) == IF i > Len(pairs) THEN <<>> ELSE part(i) \o parts(i + 1)
         IN  parts(1)

\* generator.py:352-358: a rubric that is a dictionary becomes a string
FlattenRubric(pairs) ==
    join(<<"Grading", "criteria:">> \o RubricParts(pairs)
         \o <<"Total:", ToString(SumValues(pairs)), "points.">>)

\* sum() raises TypeError on a value that is no number
RubricSumRaises(pairs) == \E i \in 1..Len(pairs) : pairs[i].value.t # "int"

\* generator.py:351-359 for one question of the response
FixRubric(q) ==
    IF q.t = "dict" /\ "rubric" \in DOMAIN q.v /\ q.v.rubric.t = "dict"
    THEN Dict([q.v EXCEPT !.rubric = Str(FlattenRubric(q.v.rubric.v))])
    ELSE q

FixRubricRaises(q) ==
    /\ q.t = "dict"
    /\ "rubric" \in DOMAIN q.v
    /\ q.v.rubric.t = "dict"
    /\ RubricSumRaises(q.v.rubric.v)

\* sorted(question_numbers) as the bag of the numbers: two lists sort to the
\* same list iff every number occurs equally often in both
Count(s, x) == Cardinality({i \in 1..Len(s) : s[i] = x})

\* a numbering check that accepts every numbering
NotSequential_never(questions, num_questions) == FALSE

\* generator.py:383-385  sorted(question_numbers) != expected_numbers
NotSequential(questions, num_questions) ==
    LET question_numbers == [i \in 1..Len(questions) |-> questions[i].question_number]
    IN  \/ Len(question_numbers) # num_questions
        \/ \E k \in 1..num_questions : Count(question_numbers, k) # 1

\* generator.py:409  similarity > 0.85
TooSimilar(similarity) == RLess(<<85, 100>>, similarity)

\* generator.py:391-416  duplicates_found
duplicates_found(questions) ==
    \E i \in 1..Len(questions) : \E j \in 1..(i - 1) :
        LET normalized == _normalize(questions[i].question_text)
            existing_norm == _normalize(questions[j].question_text)
        IN  \/ normalized = existing_norm
            \/ TooSimilar(_calculate_similarity(normalized, existing_norm))

\* generator.py:376  len(exam.questions) != num_questions
WrongCount(questions, num_questions) == Len(questions) # num_questions

\* generator.py:345-423: what one decoded response leads to: the exam that is
\* returned, or None when the attempt fails
CheckExamResponse(response_dict, num_questions) ==
    IF response_dict.t # "dict" THEN None
    ELSE IF "questions" \notin DOMAIN response_dict.v THEN None
    ELSE IF response_dict.v.questions.t # "list" THEN None
    ELSE LET qs == response_dict.v.questions.v
             fixed == Dict([response_dict.v EXCEPT
                              !.questions = List([i \in 1..Len(qs) |-> FixRubric(qs[i])])])
             exam == validate_response(fixed, "GeneratedExam")
         IN  IF \E i \in 1..Len(qs) : FixRubricRaises(qs[i]) THEN None
             ELSE IF exam = None THEN None
             ELSE IF WrongCount(exam.questions, num_questions) THEN None
             ELSE IF NotSequential(exam.questions, num_questions) THEN None
             ELSE IF duplicates_found(exam.questions) THEN None
             ELSE exam

\* the fallback exam is returned; generated_questions is left as it is
ReturnFallbackExam(num_questions, count) ==
    /\ gj_calls' = count
    /\ Finish([op |-> "generate_exam", kind |-> "return", via |-> "fallback",
               num_questions |-> num_questions,
               value |-> FallbackExam(num_questions, generated_questions)])

\* generator.py:340-345: from the top of the attempt loop to the await
ExamAttempt(num_questions, n, count) ==
    /\ pc' = "generate_exam"
    /\ frame' = [op |-> "generate_exam", num_questions |-> num_questions]
    /\ attempt' = n
    /\ gw_pc' = "entered"
    /\ gw_result' = NoResult
    /\ provider_log' = <<>>
    /\ provider_exc' = "none"
    /\ gj_calls' = count + 1
    /\ result' = NoResult

\* generator.py:229-345: generate_exam up to its return through the
\* availability check, to the failure of format_prompt, or to its first await
generate_exam(num_questions) ==
    /\ pc = "idle"
    /\ CallAllowed
    /\ calls' = calls + 1
    /\ provider_called' = FALSE
    /\ LET exam_template == _load_template(templates, "exam_gen_v1.txt")
       IN  IF skip_llm
           THEN ReturnFallbackExam(num_questions, 0)
           ELSE IF ~format_prompt_ok(exam_template, ExamKwargs)
           THEN /\ Finish([op |-> "generate_exam", kind |-> "raise", via |-> "none",
                           num_questions |-> num_questions,
                           exc |-> format_prompt_error(exam_template, ExamKwargs)])
                /\ gj_calls' = 0
           ELSE ExamAttempt(num_questions, 0, 0)
    /\ UNCHANGED <<exam_vars, api_key, client_methods, templates, generated_questions, question_counter, returned>>

\* generator.py:345-522: generate_exam from the end of its await to its
\* return or to the next await
generate_exam_resume ==
    /\ pc = "generate_exam"
    /\ gw_pc = "done"
    /\ LET num_questions == frame.num_questions
           exam ==
               IF gw_result.kind = "return"
               THEN CheckExamResponse(gw_result.value, num_questions)
               ELSE None
           next_attempt ==
               IF attempt + 1 < max_attempts
               THEN ExamAttempt(num_questions, attempt + 1, gj_calls)
               ELSE ReturnFallbackExam(num_questions, gj_calls)
       IN  IF gw_result.kind = "raise"
           THEN IF /\ gw_result.exc.type = "RuntimeError"
                   /\ is_api_key_error_exam(gw_result.exc)
                THEN ReturnFallbackExam(num_questions, gj_calls)
                ELSE next_attempt
           ELSE IF exam = None
           THEN next_attempt
           ELSE /\ gj_calls' = gj_calls
                /\ Finish([op |-> "generate_exam", kind |-> "return", via |-> "llm",
                           num_questions |-> num_questions, value |-> exam])
    /\ UNCHANGED <<exam_vars, api_key, client_methods, templates, generated_questions, question_counter,
                   provider_called, returned, calls>>

(***************************************************************************)
(* Answer grader: grade_answer.                                            *)
(***************************************************************************)
\* length tiers whose lower ends are inclusive
grade_by_length_inclusive(answer_length) ==
    IF answer_length >= 500 THEN 85
    ELSE IF answer_length >= 200 THEN 75
    ELSE IF answer_length >= 50 THEN 65
    ELSE 55

\* grader.py:86-101: the grade of the length tiers
grade_by_length(answer_length) ==
    IF answer_length > 500 THEN 85
    ELSE IF answer_length > 200 THEN 75
    ELSE IF answer_length > 50 THEN 65
    ELSE 55

\* grader.py:88, 91, 94, 97: the feedback of the length tiers
feedback_by_length(answer_length) ==
    IF answer_length > 500 THEN "comprehensive"
    ELSE IF answer_length > 200 THEN "adequate"
    ELSE IF answer_length > 50 THEN "brief"
    ELSE "too brief"

\* grader.py:82-107: the result built in `except Exception`
length_fallback(student_answer) ==
    LET answer_length == len(strip(student_answer))
    IN  [t |-> "GradingResult",
         grade |-> grade_by_length(answer_length),
         feedback |-> feedback_by_length(answer_length),
         strengths |-> <<"Answer was submitted",
                         "Demonstrates engagement with the material">>,
         weaknesses |-> <<"AI grading unavailable - using basic evaluation">>]

\* a validation-failure result that is the one of the middle length tier
validation_fallback_tier ==
    [t |-> "GradingResult",
     grade |-> 65,
     feedback |-> "Answer received. Standard evaluation applied.",
     strengths |-> <<"Answer was submitted">>,
     weaknesses |-> <<"AI grading unavailable - using basic evaluation">>]

\* grader.py:71-79: the result built when validation fails
validation_fallback ==
    [t |-> "GradingResult",
     grade |-> 75,
     feedback |-> "Answer received. Standard evaluation applied.",
     strengths |-> <<"Answer was submitted">>,
     weaknesses |-> <<"Unable to perform detailed evaluation">>]

\* grader.py:54-68: grade_answer up to the failure of format_prompt or to
\* its await
grade_answer(student_answer) ==
    /\ pc = "idle"
    /\ CallAllowed
    /\ calls' = calls + 1
    /\ provider_called' = FALSE
    /\ LET prompt_template == _load_template(templates, "grade_response_v1.txt")
       IN  IF format_prompt_ok(prompt_template, GradeKwargs)
           THEN /\ pc' = "grade_answer"
                /\ frame' = [op |-> "grade_answer", student_answer |-> student_answer]
                /\ attempt' = 0
                /\ gw_pc' = "entered"
                /\ gw_result' = NoResult
                /\ provider_log' = <<>>
                /\ provider_exc' = "none"
                /\ gj_calls' = 1
                /\ result' = NoResult
           ELSE /\ Finish([op |-> "grade_answer", kind |-> "raise", via |-> "none",
                           student_answer |-> student_answer,
                           exc |-> format_prompt_error(prompt_template, GradeKwargs)])
                /\ gj_calls' = 0
    /\ UNCHANGED <<exam_vars, api_key, client_methods, templates, generated_questions, question_counter, returned>>

\* grader.py:68-107: grade_answer from the end of its await to its return
grade_answer_resume ==
    /\ pc = "grade_answer"
    /\ gw_pc = "done"
    /\ LET validated ==
               IF gw_result.kind = "return"
               THEN validate_response(gw_result.value, "GradingResult")
               ELSE None
           outcome ==
               IF gw_result.kind = "raise"
               THEN [via |-> "except", value |-> length_fallback(frame.student_answer)]
               ELSE IF validated = None
               THEN [via |-> "rejected", value |-> validation_fallback]
               ELSE [via |-> "llm", value |-> validated]
       IN  Finish([op |-> "grade_answer", kind |-> "return", via |-> outcome.via,
                   student_answer |-> frame.student_answer,
                   cause |-> gw_result, value |-> outcome.value])
    /\ UNCHANGED <<exam_vars, api_key, client_methods, templates, generated_questions, question_counter,
                   gj_calls, provider_called, returned, calls>>

(***************************************************************************)
(* Final grade calculator: calculate_final_grade.                          *)
(***************************************************************************)
RECURSIVE sum(_)
\* sum(question_scores)
sum(question_scores) ==
    IF question_scores = <<>> THEN 0
    ELSE Head(question_scores) + sum(Tail(question_scores))

\* an average that is the last score
avg_grade_last(question_scores) ==
    IF question_scores # <<>> THEN <<question_scores[Len(question_scores)], 1>>
    ELSE <<0, 1>>

\* finalizer.py:69 and :80
\* sum(question_scores) / len(question_scores) if question_scores else 0.0
avg_grade(question_scores) ==
    IF question_scores # <<>> THEN <<sum(question_scores), Len(question_scores)>>
    ELSE <<0, 1>>

\* pydantic's error for a field that breaks its constraint
ValidationError == [type |-> "ValidationError", msg |-> <<"final_grade">>]

\* finalizer.py:70-74 and 81-85: FinalGrade(final_grade=..., explanation=...,
\* question_scores=...), which raises when final_grade is outside [0, 100]
NewFinalGrade(final_grade, explanation, question_scores) ==
    IF ~RLess(final_grade, <<0, 1>>) /\ ~RLess(<<100, 1>>, final_grade)
    THEN [kind |-> "return",
          value |-> [t |-> "FinalGrade", final_grade |-> final_grade,
                     explanation |-> explanation,
                     question_scores |-> question_scores]]
    ELSE [kind |-> "raise", exc |-> ValidationError]

\* finalizer.py:77-85: the result built in `except Exception`
average_on_error(question_scores) ==
    NewFinalGrade(avg_grade(question_scores),
                  <<"average", "due", "to", "calculation", "error">>,
                  question_scores)

\* finalizer.py:66-74: the result built when validation fails; when building
\* it raises, the `except Exception` of line 77 builds its own
average_on_rejection(question_scores) ==
    LET built == NewFinalGrade(avg_grade(question_scores),
                               <<"average", "of", Len(question_scores), "questions">>,
                               question_scores)
    IN  IF built.kind = "return" THEN built ELSE average_on_error(question_scores)

\* finalizer.py:48-63: calculate_final_grade up to the failure of
\* format_prompt or to its await
calculate_final_grade(question_scores) ==
    /\ pc = "idle"
    /\ CallAllowed
    /\ calls' = calls + 1
    /\ provider_called' = FALSE
    /\ LET prompt_template == _load_template(templates, "final_grade_v1.txt")
       IN  IF format_prompt_ok(prompt_template, FinalKwargs)
           THEN /\ pc' = "calculate_final_grade"
                /\ frame' = [op |-> "calculate_final_grade",
                             question_scores |-> question_scores]
                /\ attempt' = 0
                /\ gw_pc' = "entered"
                /\ gw_result' = NoResult
                /\ provider_log' = <<>>
                /\ provider_exc' = "none"
                /\ gj_calls' = 1
                /\ result' = NoResult
           ELSE /\ Finish([op |-> "calculate_final_grade", kind |-> "raise",
                           via |-> "none", question_scores |-> question_scores,
                           exc |-> format_prompt_error(prompt_template, FinalKwargs)])
                /\ gj_calls' = 0
    /\ UNCHANGED <<exam_vars, api_key, client_methods, templates, generated_questions, question_counter, returned>>

\* finalizer.py:63-85: calculate_final_grade from the end of its await to its
\* return
calculate_final_grade_resume ==
    /\ pc = "calculate_final_grade"
    /\ gw_pc = "done"
    /\ LET validated ==
               IF gw_result.kind = "return"
               THEN validate_response(gw_result.value, "FinalGrade")
               ELSE None
           outcome ==
               IF gw_result.kind = "raise"
               THEN [via |-> "except"] @@ average_on_error(frame.question_scores)
               ELSE IF validated = None
               THEN [via |-> "rejected"] @@ average_on_rejection(frame.question_scores)
               ELSE [via |-> "llm", kind |-> "return", value |-> validated]
       IN  Finish([op |-> "calculate_final_grade",
                   question_scores |-> frame.question_scores,
                   cause |-> gw_result] @@ outcome)
    /\ UNCHANGED <<exam_vars, api_key, client_methods, templates, generated_questions, question_counter,
                   gj_calls, provider_called, returned, calls>>

(***************************************************************************)
(* Grade thresholds (thresholds.py).                                       *)
(***************************************************************************)
FOLLOWUP_THRESHOLD == 70

EXCELLENT_THRESHOLD == 90

GOOD_THRESHOLD == 80

ACCEPTABLE_THRESHOLD == 70

\* thresholds.py:14-16
should_ask_followup(grade) == grade < FOLLOWUP_THRESHOLD

\* categories whose lower ends are exclusive
get_grade_category_exclusive(grade) ==
    IF grade > EXCELLENT_THRESHOLD THEN "Excellent"
    ELSE IF grade > GOOD_THRESHOLD THEN "Good"
    ELSE IF grade > ACCEPTABLE_THRESHOLD THEN "Acceptable"
    ELSE "Needs Improvement"

\* thresholds.py:19-28
get_grade_category(grade) ==
    IF grade >= EXCELLENT_THRESHOLD THEN "Excellent"
    ELSE IF grade >= GOOD_THRESHOLD THEN "Good"
    ELSE IF grade >= ACCEPTABLE_THRESHOLD THEN "Acceptable"
    ELSE "Needs Improvement"

(***************************************************************************)
(* The pure functions applied to arguments: thresholds, similarity,        *)
(* validate_response.                                                      *)
(***************************************************************************)
\* the grades the thresholds are applied to
Grades == (0 - 5)..MaxGrade

\* the texts the similarity is applied to: the texts of at most MaxWords
\* words of a small vocabulary, texts with leading, trailing, doubled and no
\* other than whitespace characters, and the long and short question texts
SimWords == {"what", "recursion", "sorting"}

SimTexts ==
    {join(words) : words \in UNION {[1..n -> SimWords] : n \in 0..MaxWords}}
    \cup {<<WS>>, <<WS, WS>>, <<WS, "recursion">>,
          <<"recursion", WS, WS, "sorting", WS>>}
    \cup {QLongA, QLongB, QLongC, QLongD, QShort, QShortSpaced, QShortKeys}

\* a field of a response: absent, or present with a value
Field(name, values) == {<<>>} \cup {[n \in {name} |-> v] : v \in values}

\* the responses validate_response is applied to, with the schema asked for
ValidationInputs ==
    {[response_dict |-> Dict(g @@ f), schema |-> "GradingResult"] :
        g \in Field("grade", {Num(0 - 1), Num(0), Num(100), Num(101), Str(<<"high">>), Null}),
        f \in Field("feedback", {Str(<<"Good">>), Num(1), Null})}
    \cup
    {[response_dict |-> Dict(g @@ e @@ q), schema |-> "FinalGrade"] :
        g \in Field("final_grade", {Num(0 - 1), Num(100), Num(101), Str(<<"high">>)}),
        e \in Field("explanation", {Str(<<"Solid">>), Num(1)}),
        q \in Field("question_scores",
                    {List(<<>>), List(<<Num(80), Num(90)>>), List(<<Str(<<"high">>)>>),
                     Num(80)})}
    \cup
    {[response_dict |-> Dict(t @@ c @@ r), schema |-> "GeneratedQuestion"] :
        t \in Field("question_text", {Str(QShort), Num(1)}),
        c \in Field("context", {Str(SomeContext), Null}),
        r \in Field("rubric", {Str(SomeRubric), Dict(<<>>)})}
    \cup
    {[response_dict |-> v, schema |-> sch] :
        v \in {List(<<>>), Null, Str(<<"text">>), Num(1)},
        sch \in {"GradingResult", "FinalGrade", "GeneratedQuestion"}}

\* a pure function is applied once, by a caller that is not inside an
\* operation
apply_thresholds(grade) ==
    /\ pc = "idle"
    /\ calls = 0
    /\ calls' = 1
    /\ result' = [op |-> "thresholds", kind |-> "return", grade |-> grade,
                  followup |-> should_ask_followup(grade),
                  category |-> get_grade_category(grade)]
    /\ UNCHANGED <<exam_vars, api_key, client_methods, templates, generated_questions, question_counter, pc,
                   frame, attempt, gw_pc, provider_log, provider_exc, gw_result, gj_calls,
                   provider_called, returned>>

apply_calculate_similarity(text1, text2) ==
    /\ pc = "idle"
    /\ calls = 0
    /\ calls' = 1
    /\ result' = [op |-> "_calculate_similarity", kind |-> "return",
                  text1 |-> text1, text2 |-> text2,
                  value |-> _calculate_similarity(text1, text2)]
    /\ UNCHANGED <<exam_vars, api_key, client_methods, templates, generated_questions, question_counter, pc,
                   frame, attempt, gw_pc, provider_log, provider_exc, gw_result, gj_calls,
                   provider_called, returned>>

apply_validate_response(response_dict, schema) ==
    /\ pc = "idle"
    /\ calls = 0
    /\ calls' = 1
    /\ result' = [op |-> "validate_response", kind |-> "return",
                  response_dict |-> response_dict, schema |-> schema,
                  value |-> validate_response(response_dict, schema)]
    /\ UNCHANGED <<exam_vars, api_key, client_methods, templates, generated_questions, question_counter, pc,
                   frame, attempt, gw_pc, provider_log, provider_exc, gw_result, gj_calls,
                   provider_called, returned>>

InitPure ==
    Init /\ api_key = FALSE /\ client_methods = LLMClientMethods /\ templates = {}

NextPure ==
    \/ \E grade \in Grades : apply_thresholds(grade)
    \/ \E text1 \in SimTexts, text2 \in SimTexts :
           apply_calculate_similarity(text1, text2)
    \/ \E input \in ValidationInputs :
           apply_validate_response(input.response_dict, input.schema)

SpecPure == InitPure /\ [][NextPure]_vars

Next ==
    \/ generate_json
    \/ call_llm_with_retry
    \/ new_generator
    \/ \E arg \in QuestionNumberArgs : generate_question(arg)
    \/ generate_question_resume
    \/ \E num_questions \in 0..MaxNum : generate_exam(num_questions)
    \/ generate_exam_resume

Spec == Init /\ [][Next]_vars

\* the grader and the gateway under it
NextGrader ==
    \/ generate_json
    \/ call_llm_with_retry
    \/ \E student_answer \in StudentAnswers : grade_answer(student_answer)
    \/ grade_answer_resume

SpecGrader == Init /\ [][NextGrader]_vars

\* the template files of the grader and of the final grade calculator
GradingTemplateFiles == {"grade_response_v1.txt", "final_grade_v1.txt"}

InitGrading ==
    /\ api_key \in BOOLEAN
    /\ client_methods = LLMClientMethods
    /\ templates \in SUBSET GradingTemplateFiles
    /\ generated_questions = {}
    /\ question_counter = 0
    /\ pc = "idle"
    /\ frame = NoFrame
    /\ attempt = 0
    /\ gw_pc = "idle"
    /\ provider_log = <<>>
    /\ provider_exc = "none"
    /\ gw_result = NoResult
    /\ gj_calls = 0
    /\ provider_called = FALSE
    /\ result = NoResult
    /\ returned = <<>>
    /\ calls = 0
    /\ NoExams

\* the grader, the final grade calculator and the gateway under them
NextGrading ==
    \/ generate_json
    \/ call_llm_with_retry
    \/ \E student_answer \in StudentAnswers : grade_answer(student_answer)
    \/ grade_answer_resume
    \/ \E question_scores \in ScoreLists : calculate_final_grade(question_scores)
    \/ calculate_final_grade_resume

SpecGrading == InitGrading /\ [][NextGrading]_vars

(***************************************************************************)
(* Exam workflow: ExamService, the request handlers that use it, and the   *)
(* repositories.                                                           *)
(***************************************************************************)
MaxHandled == 2

MaxSequential == 6

MaxExams == 1

\* settings.py:24
exam_question_count == 3

\* the variables the exam workflow leaves alone
generator_vars ==
    <<api_key, client_methods, templates, generated_questions, question_counter, pc,
      frame, attempt, gw_pc, provider_log, provider_exc, gw_result, gj_calls,
      provider_called, result, returned>>

\* generator.py:20-21: QuestionGenerator.__init__
NewQuestionGenerator == [generated_questions |-> {}, _question_counter |-> 0]

\* a constructor that hands out the first object again
NewObject_first(heap) == 1

\* the identity of the object a constructor call creates
NewObject(heap) == Len(heap) + 1

\* QuestionGenerator(): the new object and the heap that holds it
Construct(heap) ==
    LET id == NewObject(heap)
    IN  [id |-> id,
         generators |-> IF id > Len(heap) THEN Append(heap, NewQuestionGenerator)
                        ELSE heap]

\* exam_service.py:26-31: ExamService.question_generator of the service of
\* request r
question_generator(r) ==
    IF requests[r]._question_generator = 0
    THEN Construct(generators)
    ELSE [id |-> requests[r]._question_generator, generators |-> generators]

\* the question texts the provider gives while exams are taken
ExamQuestionTexts == {fallback_questions[2].question_text}

\* generator.py:52-142: the ways one call of generate_question may end on a
\* generator whose seen-set is `seen`: the fallback, a question of the
\* provider that is not in the seen-set, or the error of format_prompt
generate_question_outcomes(seen, question_number) ==
    LET fallback == _get_fallback_question(question_number, seen)
        by_fallback ==
            [kind |-> "return", question_text |-> fallback.question_text,
             generated_questions |-> RegisterFallback(seen, fallback)]
        template == _load_template(templates, "question_gen_v1.txt")
    IN  IF skip_llm THEN {by_fallback}
        ELSE IF ~format_prompt_ok(template, QuestionKwargs)
        THEN {[kind |-> "raise", question_text |-> <<>>, generated_questions |-> seen]}
        ELSE {by_fallback} \cup
             {[kind |-> "return", question_text |-> q,
               generated_questions |-> seen \cup {_normalize(q)}] :
                  q \in {x \in ExamQuestionTexts : _normalize(x) \notin seen}}

\* the grades grade_answer gives, and None when it raises
GradeOutcomes == {None, Num(90)}

\* exam_service.py:125-147: the final grade complete_exam stores: the grade
\* calculate_final_grade returns (the provider's, or the average), or the
\* average of the except branch
final_grade_outcomes(scores) ==
    {avg_grade(scores)} \cup (IF api_key THEN {<<88, 1>>} ELSE {})

\* the server has one task: the other task is off
OneTask == \E s \in Requests : requests[s].pc = "off"

\* a task takes the next request: the free task of the lowest number; fewer
\* requests are followed when tasks run concurrently
Accepts(r) ==
    /\ requests[r].pc = "done"
    /\ \A s \in Requests : requests[s].pc = "done" => r <= s
    /\ calls < (IF OneTask THEN MaxSequential ELSE MaxHandled)

\* repo.py:79-81: QuestionRepository.get_by_exam: the rows of the exam in
\* the order of their question_number
get_by_exam(rows, exam_id) ==
    LET of_exam == {row \in rows : row.exam_id = exam_id}
        before(row) == {other \in of_exam : other.question_number < row.question_number}
    IN  [k \in 1..Cardinality(of_exam) |->
            CHOOSE row \in of_exam : Cardinality(before(row)) = k - 1]

\* auth.py:57-58, exam_service.py:47-50: the login handler up to the loop of
\* start_exam: a new ExamService and a new exam row
login(r) ==
    /\ Accepts(r)
    /\ OneTask => Len(exam_rows) < MaxExams
    /\ calls' = calls + 1
    /\ exam_rows' = Append(exam_rows, [status |-> "in_progress", final_grade |-> None])
    /\ requests' = [requests EXCEPT ![r] =
                       [NoRequest EXCEPT !.handler = "login", !.pc = "start_exam",
                                         !.exam_id = Len(exam_rows) + 1, !.i = 1]]
    /\ UNCHANGED <<generators, question_rows>>
    /\ UNCHANGED generator_vars

\* exam_service.py:53-77: one pass of the loop of start_exam
start_exam_question(r) ==
    /\ requests[r].pc = "start_exam"
    /\ LET i == requests[r].i
           g == question_generator(r)
           seen == g.generators[g.id].generated_questions
           held == [requests[r] EXCEPT !._question_generator = g.id]
           next(req) ==
               IF i < exam_question_count THEN [req EXCEPT !.i = i + 1]
               ELSE [NoRequest EXCEPT !.handler = "login", !.outcome = "return"]
       IN  \E first \in generate_question_outcomes(seen, i) :
           \E created \in BOOLEAN :
               IF first.kind = "return" /\ created
               THEN /\ question_rows' =
                           question_rows \cup
                               {[exam_id |-> requests[r].exam_id, question_number |-> i,
                                 student_answer |-> None, grade |-> None]}
                    /\ generators' =
                           [g.generators EXCEPT ![g.id].generated_questions =
                                                    first.generated_questions]
                    /\ requests' = [requests EXCEPT ![r] =
                           next([held EXCEPT !.received = @ \cup {first.question_text}])]
               ELSE \E second \in generate_question_outcomes(first.generated_questions, i) :
                        LET got == IF first.kind = "return"
                                   THEN held.received \cup {first.question_text}
                                   ELSE held.received
                        IN  /\ question_rows' = question_rows
                            /\ generators' =
                                   [g.generators EXCEPT ![g.id].generated_questions =
                                                            second.generated_questions]
                            /\ requests' = [requests EXCEPT ![r] =
                                   IF second.kind = "raise"
                                   THEN [NoRequest EXCEPT !.handler = "login", !.outcome = "raise"]
                                   ELSE next([held EXCEPT !.received =
                                                 got \cup {second.question_text}])]
    /\ UNCHANGED <<exam_rows, calls>>
    /\ UNCHANGED generator_vars

\* main.py:1176-1177: the exam-creation handler constructs its generator and
\* awaits generate_exam
create_exam(r) ==
    /\ Accepts(r)
    /\ calls' = calls + 1
    /\ LET g == Construct(generators)
       IN  /\ generators' = g.generators
           /\ requests' = [requests EXCEPT ![r] =
                  [NoRequest EXCEPT !.handler = "create_exam", !.pc = "generate_exam",
                                    !._question_generator = g.id]]
    /\ UNCHANGED <<exam_rows, question_rows>>
    /\ UNCHANGED generator_vars

\* main.py:1177-1183: generate_exam is over; it reads and writes neither the
\* seen-set nor the question counter
create_exam_resume(r) ==
    /\ requests[r].pc = "generate_exam"
    /\ requests' = [requests EXCEPT ![r] = [NoRequest EXCEPT !.handler = "create_exam", !.outcome = "return"]]
    /\ UNCHANGED <<generators, exam_rows, question_rows, calls>>
    /\ UNCHANGED generator_vars

\* exam.py:76-87, exam_service.py:87-93, repo.py:84-91: the answer handler up
\* to the await of grade_answer
submit_answer(r, exam_id, question_number) ==
    /\ Accepts(r)
    /\ calls' = calls + 1
    /\ \E question \in question_rows :
           /\ question.exam_id = exam_id
           /\ question.question_number = question_number
           /\ question_rows' =
                  (question_rows \ {question})
                      \cup {[question EXCEPT !.student_answer = Str(<<"answer">>)]}
    /\ requests' = [requests EXCEPT ![r] =
           [NoRequest EXCEPT !.handler = "submit_answer", !.pc = "grade_answer",
                             !.exam_id = exam_id, !.question_number = question_number]]
    /\ UNCHANGED <<generators, exam_rows>>
    /\ UNCHANGED generator_vars

\* exam_service.py:93-125, exam.py:89-97: the grade is stored, the status of
\* the exam is read, and complete_exam runs up to the await of
\* calculate_final_grade
submit_answer_graded(r) ==
    /\ requests[r].pc = "grade_answer"
    /\ \E grade \in GradeOutcomes :
           LET question == CHOOSE row \in question_rows :
                               /\ row.exam_id = requests[r].exam_id
                               /\ row.question_number = requests[r].question_number
               rows == IF grade = None THEN question_rows
                       ELSE (question_rows \ {question})
                                \cup {[question EXCEPT !.grade = grade]}
               of_exam == get_by_exam(rows, requests[r].exam_id)
               answered == SelectSeq(of_exam, LAMBDA row : row.student_answer # None)
               graded == SelectSeq(of_exam, LAMBDA row : row.grade # None)
           IN  /\ question_rows' = rows
               /\ requests' = [requests EXCEPT ![r] =
                      IF Len(answered) >= Len(of_exam)
                      THEN [@ EXCEPT !.pc = "complete_exam",
                                     !.scores = [k \in 1..Len(graded) |-> graded[k].grade.v]]
                      ELSE [NoRequest EXCEPT !.handler = "submit_answer", !.outcome = "return"]]
    /\ UNCHANGED <<generators, exam_rows, calls>>
    /\ UNCHANGED generator_vars

\* repo.py:39-51: ExamRepository.update_status
update_status(rows, exam_id, status, final_grade) ==
    [rows EXCEPT ![exam_id] =
        [status |-> status,
         final_grade |-> IF final_grade # None THEN final_grade ELSE @.final_grade]]

\* exam_service.py:125-147: complete_exam from the end of its await
complete_exam_resume(r) ==
    /\ requests[r].pc = "complete_exam"
    /\ \E final_grade \in final_grade_outcomes(requests[r].scores) :
           exam_rows' = update_status(exam_rows, requests[r].exam_id, "completed",
                                      [t |-> "float", v |-> final_grade])
    /\ requests' = [requests EXCEPT ![r] = [NoRequest EXCEPT !.handler = "submit_answer", !.outcome = "return"]]
    /\ UNCHANGED <<generators, question_rows, calls>>
    /\ UNCHANGED generator_vars

\* exam.py:140-167: the dispute handler
submit_dispute(r, exam_id) ==
    /\ Accepts(r)
    /\ exam_id <= Len(exam_rows)
    /\ calls' = calls + 1
    /\ exam_rows' =
           IF exam_rows[exam_id].status # "completed" \/ exam_rows[exam_id].final_grade = None
           THEN exam_rows
           ELSE [exam_rows EXCEPT ![exam_id].status = "disputed"]
    /\ requests' = [requests EXCEPT ![r] = [NoRequest EXCEPT !.handler = "submit_dispute", !.outcome = "return"]]
    /\ UNCHANGED <<generators, question_rows>>
    /\ UNCHANGED generator_vars

\* main.py:2551-2612: the instructor's handler that alters grades; the form
\* holds a final grade as a percentage, or none
confirm_alter_grades(r, exam_id) ==
    /\ Accepts(r)
    /\ exam_id <= Len(exam_rows)
    /\ calls' = calls + 1
    /\ \E form \in {None, Num(95)} :
           LET exam == exam_rows[exam_id]
               graded == SelectSeq(get_by_exam(question_rows, exam_id),
                                   LAMBDA row : row.grade # None)
               grades == [k \in 1..Len(graded) |-> graded[k].grade.v]
               final_grade ==
                   IF form # None THEN [t |-> "float", v |-> <<form.v, 100>>]
                   ELSE IF grades # <<>> THEN [t |-> "float", v |-> avg_grade(grades)]
                   ELSE exam.final_grade
           IN  exam_rows' =
                   IF exam.status \notin {"disputed", "completed"} THEN exam_rows
                   ELSE [exam_rows EXCEPT ![exam_id] =
                            [status |-> "completed", final_grade |-> final_grade]]
    /\ requests' = [requests EXCEPT ![r] = [NoRequest EXCEPT !.handler = "confirm_alter_grades", !.outcome = "return"]]
    /\ UNCHANGED <<generators, question_rows>>
    /\ UNCHANGED generator_vars

\* the prompt templates are all present or all absent
InitExam == Init /\ templates \in {{}, TemplateFiles}

\* requests that create exams, handled concurrently
NextExam ==
    \/ \E r \in Requests : login(r)
    \/ \E r \in Requests : start_exam_question(r)
    \/ \E r \in Requests : create_exam(r)
    \/ \E r \in Requests : create_exam_resume(r)

SpecExam == InitExam /\ [][NextExam]_vars

\* a server with one task, the class LLMClient as it is and all templates
InitSequential ==
    /\ api_key \in BOOLEAN
    /\ client_methods = LLMClientMethods
    /\ templates = TemplateFiles
    /\ generated_questions = {}
    /\ question_counter = 0
    /\ pc = "idle"
    /\ frame = NoFrame
    /\ attempt = 0
    /\ gw_pc = "idle"
    /\ provider_log = <<>>
    /\ provider_exc = "none"
    /\ gw_result = NoResult
    /\ gj_calls = 0
    /\ provider_called = FALSE
    /\ result = NoResult
    /\ returned = <<>>
    /\ calls = 0
    /\ generators = <<>>
    /\ requests = [r \in Requests |->
                      IF r = 1 THEN NoRequest ELSE [NoRequest EXCEPT !.pc = "off"]]
    /\ exam_rows = <<>>
    /\ question_rows = {}

\* the requests of students and of the instructor, handled one after the
\* other
NextSequential ==
    \/ \E r \in Requests : login(r)
    \/ \E r \in Requests : start_exam_question(r)
    \/ \E r \in Requests, exam_id \in 1..MaxExams, question_number \in 1..exam_question_count :
           submit_answer(r, exam_id, question_number)
    \/ \E r \in Requests : submit_answer_graded(r)
    \/ \E r \in Requests : complete_exam_resume(r)
    \/ \E r \in Requests, exam_id \in 1..MaxExams : submit_dispute(r, exam_id)
    \/ \E r \in Requests, exam_id \in 1..MaxExams : confirm_alter_grades(r, exam_id)

SpecSequential == InitSequential /\ [][NextSequential]_vars

(***************************************************************************)
(* Properties.                                                             *)
(***************************************************************************)
\* the last finished operation was `op`
Finished(op) == result.kind # "none" /\ result.op = op

\* generate_exam finished for a valid num_questions
ExamFinished ==
    Finished("generate_exam") /\ result.num_questions >= 1 /\ result.num_questions <= 30

C2_ExamCountAndNumbers ==
    (ExamFinished /\ result.kind = "return") =>
        LET questions == result.value.questions
        IN  /\ Len(questions) = result.num_questions
            /\ \A k \in 1..result.num_questions :
                   Cardinality({i \in 1..Len(questions) :
                                   questions[i].question_number = k}) = 1

\* C2 witness: an exam accepted from an LLM response whose numbers are a
\* permutation of 1..n that is not the identity
C2_Witness ==
    /\ ExamFinished
    /\ result.kind = "return"
    /\ result.via = "llm"
    /\ result.num_questions >= 2
    /\ result.value.questions[1].question_number # 1

\* the similarity of two questions of an exam, as generate_exam measures it
QuestionSimilarity(q1, q2) ==
    _calculate_similarity(_normalize(q1.question_text), _normalize(q2.question_text))

RECURSIVE ExpectedFallbackTexts(_, _, _)
ExpectedFallbackTexts(i, n, seen) ==
    IF i > n THEN <<>>
    ELSE LET unused == {k \in 1..Len(fallback_questions) :
                           _normalize(fallback_questions[k].question_text) \notin seen}
             text == IF unused # {}
                     THEN fallback_questions[CHOOSE k \in unused :
                                                \A m \in unused : k <= m].question_text
                     ELSE generic_fallback(i).question_text
         IN  <<text>> \o ExpectedFallbackTexts(i + 1, n, seen \cup {_normalize(text)})

\* C4: a fallback exam built on a fresh generator holds, in order, the
\* questions the single-question fallback rule chooses with registration, so
\* no two of its questions have the same question_text.
C4_FallbackExamByRule ==
    (ExamFinished /\ result.kind = "return" /\ result.via = "fallback"
                  /\ generated_questions = {}) =>
        LET questions == result.value.questions
        IN  /\ [i \in 1..Len(questions) |-> questions[i].question_text]
                   = ExpectedFallbackTexts(1, result.num_questions, {})
            /\ \A i \in 1..Len(questions) : \A j \in 1..Len(questions) :
                   i # j => questions[i].question_text # questions[j].question_text

\* C5: without a credential, on a generator that started with an empty
\* seen-set, the k-th generate_question returns the k-th bank entry for
\* k = 1..3, and none of these calls repeats an earlier question.
C5_CannedOrder ==
    ~api_key =>
        \A k \in 1..Len(returned) :
            k <= 3 =>
                /\ returned[k] = fallback_questions[k].question_text
                /\ \A j \in 1..(k - 1) : returned[j] # returned[k]

\* C5 witness: the bank has been handed out in full and a fourth question
\* followed
C5_Witness == ~api_key /\ Len(returned) >= 4

\* C6: with no credential, generate_question and generate_exam return
\* fallback content without any gateway or provider call and without
\* consuming a retry attempt.
C6_NoCredentialNoGatewayCall ==
    ~api_key =>
        /\ pc \notin {"generate_question", "generate_exam"}
        /\ (Finished("generate_question") \/ Finished("generate_exam")) =>
               /\ result.kind = "return"
               /\ result.via = "fallback"
               /\ gj_calls = 0
               /\ ~provider_called
               /\ attempt = 0

\* C6 witness: a fallback exam returned without a credential
C6_Witness ==
    /\ ~api_key
    /\ Finished("generate_exam")
    /\ result.num_questions >= 1
    /\ Finished("generate_exam") => Len(result.value.questions) = result.num_questions

\* generate_json has raised
GatewayRaised == gw_pc = "done" /\ gw_result.kind = "raise"

\* C7: generate_json without a credential fails before any provider call, and
\* what it raises is of a different kind from what is raised after the
\* transport retries are exhausted.
C7_UnavailableOfItsOwnKind ==
    (GatewayRaised /\ ~api_key) =>
        /\ provider_log = <<>>
        /\ gw_result.exc.type # RequestFailedError.type

\* C7 as amended: generate_json without a credential fails before any
\* provider call; it raises a RuntimeError, as it does after three failed
\* provider calls, and only the message tells the two apart: the
\* no-credential message is the one the generator's tests recognise.
C7_UnavailableByMessage ==
    GatewayRaised =>
        /\ ~api_key =>
               /\ provider_log = <<>>
               /\ gw_result.exc.type = "RuntimeError"
               /\ is_api_key_error_question(gw_result.exc)
               /\ is_api_key_error_exam(gw_result.exc)
        /\ (api_key /\ provider_log = <<"error", "error", "error">>) =>
               /\ gw_result.exc.type = "RuntimeError"
               /\ ~is_api_key_error_question(gw_result.exc)
               /\ ~is_api_key_error_exam(gw_result.exc)

\* C7 witness: generate_json has raised without a credential
C7_Witness == GatewayRaised /\ ~api_key /\ pc = "grade_answer"

\* C8: one generate_json makes at most 3 provider calls, makes none after a
\* call that succeeded, and after 3 failed calls raises RequestFailed instead
\* of returning a value.
C8_AtMostThreeProviderCalls ==
    /\ Len(provider_log) <= 3
    /\ \A i \in 1..(Len(provider_log) - 1) : provider_log[i] = "error"
    /\ (provider_log # <<>> /\ provider_log[Len(provider_log)] = "ok") => gw_pc = "done"
    /\ provider_log = <<"error", "error", "error">> =>
           /\ gw_pc = "done"
           /\ gw_result = [kind |-> "raise", exc |-> RequestFailedError]
    /\ (gw_pc = "done" /\ gw_result.kind = "return") =>
           /\ provider_log # <<>>
           /\ provider_log[Len(provider_log)] = "ok"
    /\ (gw_pc = "calling" /\ provider_log # <<>>) =>
           provider_log[Len(provider_log)] = "error"

\* C8 witness: the third provider call has failed
C8_Witness ==
    /\ provider_log = <<"error", "error", "error">>
    /\ GatewayRaised

\* the grade the four length tiers give to n characters
TierGrade(n) ==
    CASE n > 500 -> 85
      [] n > 200 /\ n <= 500 -> 75
      [] n > 50 /\ n <= 200 -> 65
      [] n <= 50 -> 55

AIUnavailableNote == "AI grading unavailable - using basic evaluation"

\* grade_answer returned after its generate_json call raised
GradedAfterRaise ==
    Finished("grade_answer") /\ result.kind = "return" /\ result.cause.kind = "raise"

\* grade_answer returned after the validator rejected the response
GradedAfterRejection ==
    /\ Finished("grade_answer")
    /\ result.kind = "return"
    /\ result.cause.kind = "return"
    /\ validate_response(result.cause.value, "GradingResult") = None

\* C9: in both failure cases (the gateway call fails, the validator rejects
\* the response) the grade is the one of the answer's length tier and the
\* weaknesses hold the note that AI grading was unavailable.
C9_LengthFallbackInBothCases ==
    (GradedAfterRaise \/ GradedAfterRejection) =>
        /\ result.value.grade = TierGrade(result.student_answer.core)
        /\ AIUnavailableNote \in Range(result.value.weaknesses)

\* C9 as amended: when the generate_json call raises, the grade is the one
\* of the answer's length tier and the weaknesses hold the AI-unavailable
\* note; when the validator rejects the response, the grade is 75 whatever
\* the length and the weaknesses do not hold that note.
C9_FallbackByFailureKind ==
    /\ GradedAfterRaise =>
           /\ result.value.grade = TierGrade(result.student_answer.core)
           /\ AIUnavailableNote \in Range(result.value.weaknesses)
    /\ GradedAfterRejection =>
           /\ result.value.grade = 75
           /\ AIUnavailableNote \notin Range(result.value.weaknesses)

\* C9 witness: a rejected response for an answer of the top length tier
C9_Witness == GradedAfterRejection /\ result.student_answer.core = 600

\* C10: under forced unavailability the grade is 85 / 75 / 65 / 55 by the
\* number of characters of the student answer.
C10_TierByAnswerLength ==
    (GradedAfterRaise /\ ~api_key) =>
        result.value.grade = TierGrade(len(result.student_answer))

\* C10 as amended: under forced unavailability the grade is 85 / 75 / 65 / 55
\* by the number of characters left once leading and trailing whitespace is
\* removed from the student answer.
C10_TierByStrippedLength ==
    (GradedAfterRaise /\ ~api_key) =>
        result.value.grade = TierGrade(result.student_answer.core)

\* C10 witness: a 600-character answer of which 10 characters remain after
\* stripping, graded 55
C10_Witness ==
    /\ GradedAfterRaise
    /\ ~api_key
    /\ len(result.student_answer) = 600
    /\ result.student_answer.core = 10
    /\ result.value.grade = 55

\* a rational <<n, d>> lies in [0, 100]
InGradeRange(r) == ~RLess(r, <<0, 1>>) /\ ~RLess(<<100, 1>>, r)

\* C11: every GradingResult returned by grade_answer has its grade in
\* [0, 100] and every FinalGrade returned by calculate_final_grade (for
\* question scores in [0, 100]) has its final_grade in [0, 100], on the LLM
\* path and on the fallback paths.
C11_GradesWithinRange ==
    /\ (Finished("grade_answer") /\ result.kind = "return") =>
           InGradeRange(<<result.value.grade, 1>>)
    /\ (Finished("calculate_final_grade") /\ result.kind = "return") =>
           InGradeRange(result.value.final_grade)

\* C11 witness: the provider answered with a final grade of 101 and
\* calculate_final_grade returned
C11_Witness ==
    /\ Finished("calculate_final_grade")
    /\ result.kind = "return"
    /\ result.cause = [kind |-> "return", value |-> FinalDict(101)]

\* calculate_final_grade finished after its generate_json call raised or
\* after the validator rejected the response
FinalAfterFailure ==
    /\ Finished("calculate_final_grade")
    /\ result.via # "none"
    /\ \/ result.cause.kind = "raise"
       \/ /\ result.cause.kind = "return"
          /\ validate_response(result.cause.value, "FinalGrade") = None

\* the total of the scores of a sequence
Total(scores) ==
    LET RECURSIVE UpToIndex(_)
        UpToIndex(i) == IF i = 0 THEN 0 ELSE scores[i] + UpToIndex(i - 1)
    IN  UpToIndex(Len(scores))

\* the rational r is the arithmetic mean of the scores (0 when there is none)
IsMean(r, scores) ==
    IF scores = <<>> THEN r[1] = 0
    ELSE r[1] * Len(scores) = Total(scores) * r[2]

\* C12: when the LLM call fails or the validator rejects its response,
\* calculate_final_grade returns the arithmetic mean of question_scores (0 for
\* no scores) as final_grade and the input question_scores unchanged; the
\* scores [80, 90, 70] give 80.
C12_MeanFallback ==
    FinalAfterFailure =>
        /\ result.kind = "return"
        /\ IsMean(result.value.final_grade, result.question_scores)
        /\ result.value.question_scores = result.question_scores
        /\ result.question_scores = <<80, 90, 70>> =>
               REq(result.value.final_grade, <<80, 1>>)

\* C12 witness: the scores [80, 90, 70] after a rejected response
C12_Witness ==
    /\ FinalAfterFailure
    /\ result.cause.kind = "return"
    /\ result.question_scores = <<80, 90, 70>>
    /\ REq(result.value.final_grade, <<80, 1>>)

\* C13: for every gateway outcome grade_answer and calculate_final_grade each
\* return a value; no exception propagates to the caller.
C13_GradingAlwaysReturns ==
    (Finished("grade_answer") \/ Finished("calculate_final_grade")) =>
        result.kind = "return"

\* the template file an operation loads
TemplateOf(op) ==
    CASE op = "generate_question" -> "question_gen_v1.txt"
      [] op = "generate_exam" -> "exam_gen_v1.txt"
      [] op = "grade_answer" -> "grade_response_v1.txt"
      [] op = "calculate_final_grade" -> "final_grade_v1.txt"

\* C14: an operation whose template file is absent formats its hardcoded
\* default template successfully and returns its normal kind of result
\* instead of raising.
C14_DefaultTemplateUsable ==
    \A op \in {"generate_question", "generate_exam", "grade_answer",
               "calculate_final_grade"} :
        (Finished(op) /\ TemplateOf(op) \notin templates) =>
            /\ format_prompt_ok(DefaultTemplate(TemplateOf(op)),
                                FileTemplate(TemplateOf(op)))
            /\ result.kind = "return"

\* the field `name` of the mapping d is present and a number in [lo, hi]
NumberWithin(d, name, lo, hi) ==
    /\ name \in DOMAIN d
    /\ d[name].t = "int"
    /\ lo <= d[name].v
    /\ d[name].v <= hi

\* the field `name` of the mapping d is present and a string
IsString(d, name) == name \in DOMAIN d /\ d[name].t = "str"

\* every required field of the schema is present in the response, well typed
\* and within its range
RequiredFieldsValid(response_dict, schema) ==
    /\ response_dict.t = "dict"
    /\ LET d == response_dict.v
       IN  CASE schema = "GradingResult" ->
                    NumberWithin(d, "grade", 0, 100) /\ IsString(d, "feedback")
             [] schema = "FinalGrade" ->
                    /\ NumberWithin(d, "final_grade", 0, 100)
                    /\ IsString(d, "explanation")
                    /\ "question_scores" \in DOMAIN d
                    /\ d.question_scores.t = "list"
                    /\ \A i \in 1..Len(d.question_scores.v) :
                           d.question_scores.v[i].t = "int"
             [] schema = "GeneratedQuestion" ->
                    /\ IsString(d, "question_text")
                    /\ IsString(d, "context")
                    /\ IsString(d, "rubric")

C16_ThresholdCategories ==
    Finished("thresholds") =>
        LET g == result.grade
        IN  /\ (result.category = "Excellent") <=> (g >= 90)
            /\ (result.category = "Good") <=> (80 <= g /\ g < 90)
            /\ (result.category = "Acceptable") <=> (70 <= g /\ g < 80)
            /\ (result.category = "Needs Improvement") <=> (g < 70)
            /\ result.followup <=> (g < 70)
            /\ result.followup <=> (result.category = "Needs Improvement")

\* C16 witness: the grade 70 is Acceptable and asks for no follow-up
C16_Witness ==
    /\ Finished("thresholds")
    /\ result.grade = 70
    /\ result.category = "Acceptable"
    /\ ~result.followup

\* C17: the similarity is symmetric in its two texts.
C17_SimilaritySymmetric ==
    Finished("_calculate_similarity") =>
        REq(result.value, _calculate_similarity(result.text2, result.text1))

\* C17 witness: two texts of different numbers of words with a similarity
\* strictly between 0 and 1
C17_Witness ==
    /\ Finished("_calculate_similarity")
    /\ result.text1 = <<"recursion">>
    /\ result.text2 = <<"recursion", WS, "sorting">>
    /\ RLess(<<0, 1>>, result.value)
    /\ RLess(result.value, <<1, 1>>)

\* C18: the similarity of two texts lies in [0, 1], and the similarity of a
\* non-empty text with itself, a text of whitespace only included, is 1.
C18_SimilarityBoundsAndIdentity ==
    Finished("_calculate_similarity") =>
        /\ ~RLess(result.value, <<0, 1>>)
        /\ ~RLess(<<1, 1>>, result.value)
        /\ (result.text1 = result.text2 /\ result.text1 # <<>>) =>
               REq(result.value, <<1, 1>>)

\* the rubric of a question of a response is a mapping from names to numbers
IsPointsMapping(q) ==
    /\ q.t = "dict"
    /\ "rubric" \in DOMAIN q.v
    /\ q.v.rubric.t = "dict"
    /\ \A k \in 1..Len(q.v.rubric.v) : q.v.rubric.v[k].value.t = "int"

\* the sum of the point values of a mapping
PointsTotal(pairs) ==
    LET RECURSIVE UpToIndex(_)
        UpToIndex(i) == IF i = 0 THEN 0 ELSE pairs[i].value.v + UpToIndex(i - 1)
    IN  UpToIndex(Len(pairs))

\* the string rubric names every category of the mapping and gives the sum
\* of its point values as the total
DescribesMapping(rubric, pairs) ==
    /\ \A k \in 1..Len(pairs) : Contains(rubric, <<pairs[k].key \o ":">>)
    /\ Contains(rubric, <<"Total:", WS, ToString(PointsTotal(pairs)), WS, "points.">>)

\* C19: when generate_exam returns the exam of an LLM response, every question
\* whose rubric arrived as a mapping from category names to point values has
\* in the returned exam a string rubric that holds every category name and
\* the sum of the point values as the total.
C19_RubricMappingFlattened ==
    [][(/\ pc = "generate_exam"
        /\ gw_pc = "done"
        /\ gw_result.kind = "return"
        /\ result'.kind = "return"
        /\ result'.via = "llm")
       => LET qs == gw_result.value.v.questions.v
          IN  \A i \in 1..Len(qs) :
                  IsPointsMapping(qs[i]) =>
                      DescribesMapping(result'.value.questions[i].rubric,
                                       qs[i].v.rubric.v)]_vars

\* C19 witness: an exam was returned whose first rubric is the string made
\* of {Understanding: 25, Application: 75}
C19_Witness ==
    /\ Finished("generate_exam")
    /\ result.kind = "return"
    /\ result.via = "llm"
    /\ result.num_questions >= 1
    /\ Contains(result.value.questions[1].rubric, <<"Understanding:", WS, "25">>)
    /\ Contains(result.value.questions[1].rubric, <<"Application:", WS, "75">>)
    /\ Contains(result.value.questions[1].rubric, <<"Total:", WS, "100">>)

\* C20: generate_exam called with num_questions outside 1..30 signals an
\* error to its caller and returns no GeneratedExam.
C20_OutOfRangeSignalsError ==
    (Finished("generate_exam") /\ (result.num_questions < 1 \/ result.num_questions > 30))
        => result.kind = "raise"

\* C21: with a credential configured, generate_question and generate_exam
\* call generate_json at least once before they return fallback content, and
\* generate_question returns the validated LLM question when its first
\* response is valid and not in the seen-set.
C21_CredentialReachesGateway ==
    /\ [](( /\ api_key
            /\ Finished("generate_question") \/ Finished("generate_exam")
            /\ result.kind = "return"
            /\ result.via = "fallback")
          => gj_calls >= 1)
    /\ [][( /\ api_key
            /\ pc = "generate_question"
            /\ attempt = 0
            /\ gw_pc = "done"
            /\ gw_result.kind = "return"
            /\ validate_response(gw_result.value, "GeneratedQuestion") # None
            /\ _normalize(validate_response(gw_result.value, "GeneratedQuestion").question_text)
                   \notin generated_questions)
          => ( /\ result'.kind = "return"
               /\ result'.via = "llm"
               /\ result'.value = validate_response(gw_result.value, "GeneratedQuestion"))]_vars

\* the attempt of generate_question whose generate_json call has just ended
\* has failed: the call raised, the validator rejected the response, or the
\* question is in the seen-set
QuestionAttemptFailed ==
    /\ pc = "generate_question"
    /\ gw_pc = "done"
    /\ \/ gw_result.kind = "raise"
       \/ /\ gw_result.kind = "return"
          /\ LET question == validate_response(gw_result.value, "GeneratedQuestion")
             IN  \/ question = None
                 \/ /\ question # None
                    /\ _normalize(question.question_text) \in generated_questions

\* C22: in generate_question with a credential, a failed request, a malformed
\* response, a validator rejection and a seen-set duplicate each use up one
\* attempt of one budget of 5: generate_json is invoked at most 5 times, an
\* attempt starts only when the one before has ended, and after the fifth
\* failure the fallback question is returned.
C22_QuestionAttemptBudget ==
    /\ []((pc = "generate_question" \/ Finished("generate_question")) => gj_calls <= 5)
    /\ [](pc = "generate_question" => gj_calls = attempt + 1)
    /\ [][(pc = "generate_question" /\ gj_calls' > gj_calls)
              => (gw_pc = "done" /\ gj_calls' = gj_calls + 1)]_vars
    /\ [][(api_key /\ QuestionAttemptFailed)
              => IF attempt < 4
                 THEN /\ pc' = "generate_question"
                      /\ attempt' = attempt + 1
                      /\ gj_calls' = gj_calls + 1
                      /\ gw_pc' = "entered"
                 ELSE /\ result'.kind = "return"
                      /\ result'.via = "fallback"
                      /\ result'.op = "generate_question"
                      /\ gj_calls' = 5]_vars

\* C22 witness: with a credential, the fallback question was returned after
\* five invocations of generate_json
C22_Witness ==
    /\ api_key
    /\ Finished("generate_question")
    /\ result.kind = "return"
    /\ result.via = "fallback"
    /\ gj_calls = 5

\* the exam passes the checks b to d: it has n questions, their numbers are
\* 1..n each used once, and no two of them have a similarity of 0.85 or more
PassesExamChecks(exam, n) ==
    LET questions == exam.questions
    IN  /\ exam.t = "GeneratedExam"
        /\ Len(questions) = n
        /\ \A k \in 1..n :
               Cardinality({i \in 1..Len(questions) : questions[i].question_number = k}) = 1
        /\ \A i \in 1..Len(questions) : \A j \in 1..Len(questions) :
               i < j => RLess(QuestionSimilarity(questions[i], questions[j]), <<85, 100>>)

QuestionReturns ==
    /\ pc = "generate_question" \/ (pc = "idle" /\ calls' # calls)
    /\ pc' = "idle"
    /\ result'.op = "generate_question"
    /\ result'.kind = "return"

\* the question_number of the call that returns on this step
ReturningQuestionNumbers ==
    IF pc = "generate_question" THEN {frame.question_number}
    ELSE IF question_counter' # question_counter THEN {question_counter'}
    ELSE 1..MaxNum

\* every canned bank entry has its normalized text in the seen-set
BankUsedUp ==
    \A i \in 1..Len(fallback_questions) :
        _normalize(fallback_questions[i].question_text) \in generated_questions

\* C24: the fallback of generate_question returns the generic placeholder
\* for the call's question_number exactly when every canned bank entry is in
\* the seen-set, a bank entry otherwise, and every question generate_question
\* returns has its normalized text in the seen-set when the call returns.
C24_PlaceholderAndRegistration ==
    [][QuestionReturns =>
          /\ _normalize(result'.value.question_text) \in generated_questions'
          /\ result'.via = "fallback" =>
                /\ BankUsedUp <=>
                      \E n \in ReturningQuestionNumbers :
                          result'.value.question_text
                              = <<"Generic", WS, "CS", WS, "question", WS,
                                  "#" \o ToString(n) \o ".">>
                /\ ~BankUsedUp =>
                      \E i \in 1..Len(fallback_questions) :
                          /\ result'.value.question_text
                                 = fallback_questions[i].question_text
                          /\ _normalize(fallback_questions[i].question_text)
                                 \notin generated_questions]_vars

\* C24 witness: generate_question has returned the generic placeholder with
\* the whole bank and the placeholder in the seen-set
C24_Witness ==
    /\ Finished("generate_question")
    /\ result.kind = "return"
    /\ result.via = "fallback"
    /\ BankUsedUp
    /\ \E n \in 1..(MaxNum + MaxCalls) :
           result.value.question_text
               = <<"Generic", WS, "CS", WS, "question", WS, "#" \o ToString(n) \o ".">>
    /\ _normalize(result.value.question_text) \in generated_questions

\* C25: a provider call that fails with an authentication error is not
\* retried: generate_json is then over, with one provider call made.
C25_AuthErrorNotRetried ==
    provider_exc = "AuthenticationError" =>
        /\ gw_pc = "done"
        /\ Len(provider_log) = 1

\* the number of words of a text
WordCount(text) == Len(split(text))

\* the measures of two texts the similarity is stated in: Jaccard, overlap
\* ratio and key-term similarity
StatedMeasures(text1, text2) ==
    LET words1 == Range(split(text1))
        words2 == Range(split(text2))
        shared == Cardinality(words1 \cap words2)
        shorter == IF Cardinality(words1) <= Cardinality(words2)
                   THEN Cardinality(words1) ELSE Cardinality(words2)
        keys1 == {w \in words1 : Len(w) > 3 /\ w \notin common_words}
        keys2 == {w \in words2 : Len(w) > 3 /\ w \notin common_words}
    IN  [jaccard |-> <<shared, Cardinality(words1 \cup words2)>>,
         overlap |-> <<shared, shorter>>,
         key |-> IF keys1 = {} \/ keys2 = {} THEN <<0, 1>>
                 ELSE <<Cardinality(keys1 \cap keys2), Cardinality(keys1 \cup keys2)>>]

\* max(Jaccard, 0.8 x overlap), with 0.9 x key similarity when that is above 0.6
StatedUnfloored(text1, text2) ==
    LET m == StatedMeasures(text1, text2)
        base == RMax(m.jaccard, <<4 * m.overlap[1], 5 * m.overlap[2]>>)
    IN  IF RLess(<<3, 5>>, m.key)
        THEN RMax(base, <<9 * m.key[1], 10 * m.key[2]>>)
        ELSE base

C28_NoRepeatedQuestion ==
    \A i \in 1..Len(returned) : \A j \in 1..Len(returned) :
        i # j => _normalize(returned[i]) # _normalize(returned[j])

\* C27: no QuestionGenerator is reachable from two requests: the generators
\* of two requests that are being handled are different objects, and the
\* seen-set of a request's generator holds the questions that were returned
\* to that request and nothing else.
C27_GeneratorPerRequest ==
    \A r1 \in Requests :
        requests[r1]._question_generator # 0 =>
            /\ \A r2 \in Requests \ {r1} :
                   requests[r2]._question_generator # requests[r1]._question_generator
            /\ generators[requests[r1]._question_generator].generated_questions
                   = {_normalize(text) : text \in requests[r1].received}

\* C27 witness: two logins are inside start_exam at the same time and each
\* has been given the first bank entry
C27_Witness ==
    \A r \in Requests :
        /\ requests[r].pc = "start_exam"
        /\ requests[r]._question_generator # 0
        /\ fallback_questions[1].question_text \in requests[r].received

\* C29: when start_exam returns, the exam has exactly exam_question_count
\* persisted questions, numbered 1..exam_question_count.
C29_StartExamPersistsAll ==
    [][\A r \in Requests :
          (/\ requests[r].pc = "start_exam"
           /\ requests'[r].pc = "done"
           /\ requests'[r].outcome = "return") =>
              LET rows == {row \in question_rows' : row.exam_id = requests[r].exam_id}
              IN  /\ Cardinality(rows) = exam_question_count
                  /\ {row.question_number : row \in rows} = 1..exam_question_count]_vars

\* the step is the instructor's handler
InstructorActs ==
    /\ calls' # calls
    /\ \E r \in Requests : Accepts(r) /\ requests'[r].handler = "confirm_alter_grades"

\* C30: whatever students do, a disputed exam keeps its status and its final
\* grade until the instructor acts.
C30_DisputedStaysDisputed ==
    [][\A exam_id \in 1..MaxExams :
          (/\ exam_id <= Len(exam_rows)
           /\ exam_rows[exam_id].status = "disputed"
           /\ ~InstructorActs) =>
              exam_rows'[exam_id] = exam_rows[exam_id]]_vars

====
